---- MODULE Spec2Model ----
(***************************************************************************)
(* RustFFT: the Good-Thomas (prime factor) algorithm, its construction,    *)
(* its process / process_multi entry points and the callers that share a   *)
(* plan.                                                                   *)
(*                                                                         *)
(* Complex values are modelled exactly.  Every twiddle factor used by a    *)
(* transform of length n (and by inner transforms whose length divides n)  *)
(* is a power of z = exp(2*pi*i/M) with M = n, so a complex value is kept  *)
(* as an element of the group ring Z[z]/(z^M - 1): a function from the     *)
(* exponents 0..M-1 to integer coefficients.  Two values that are equal    *)
(* here are equal as complex numbers.                                      *)
(***************************************************************************)
EXTENDS Integers, FiniteSets, TLC

\* ------------------------------------------------------------------ bounds
\* largest inner FFT length handed to GoodThomasAlgorithm::new directly
MaxSize == 4
\* largest number of back-to-back blocks handed to process_multi
MaxBlocks == 2
\* largest length requested from the planner
MaxPlanLen == 12
\* widest machine word, in bits, the map arithmetic is replayed in
MaxWordBits == 8

Threads == {1, 2}

\* ------------------------------------------------------- exact arithmetic
Min(a, b) == IF a < b THEN a ELSE b

\* slices are functions on 0..len-1
SliceLen(buf) == Cardinality(DOMAIN buf)

EmptyIdx == [i \in 0 .. -1 |-> 0]

CZero(M) == [e \in 0 .. M - 1 |-> 0]

\* the real number c
CReal(c, M) == [e \in 0 .. M - 1 |-> IF e = 0 THEN c ELSE 0]

CAdd(a, b) == [e \in DOMAIN a |-> a[e] + b[e]]

\* a * z^k, 0 <= k < M
CMulRoot(a, k, M) == [e \in 0 .. M - 1 |-> a[(e + M - k) % M]]

\* a value no transform of the caller's data is expected to produce; stands
\* for "garbage" left in a scratch buffer and for never-written memory
CJunk(M) == [e \in 0 .. M - 1 |-> 0 - 7]

\* exponent e with twiddle(k, n, inverse) = z^e: exp(-2*pi*i*k/n) forward,
\* exp(+2*pi*i*k/n) inverse; n divides M
TwiddleExp(k, n, inverse, M) ==
    LET e == (k * (M \div n)) % M
    IN  IF inverse THEN e ELSE (M - e) % M

\* coefficient e of a * z^k, 0 <= k < M
CMulRootCoeff(a, k, e, M) == a[(e + M - k) % M]

\* coefficient e of sum_{j' >= j} x[base + j'] * twiddle(j'*k, n, inverse)
RECURSIVE DftSum(_, _, _, _, _, _, _, _)
DftSum(x, base, k, e, j, n, inverse, M) ==
    IF j >= n THEN 0
    ELSE CMulRootCoeff(x[base + j], TwiddleExp(j * k, n, inverse, M), e, M)
         + DftSum(x, base, k, e, j + 1, n, inverse, M)

\* the naive DFT of the n elements of x from base on:
\* X[k] = sum_j x[base + j] * twiddle(j*k, n, inverse)
Dft(x, base, n, inverse, M) ==
    [k \in 0 .. n - 1 |->
        [e \in 0 .. M - 1 |-> DftSum(x, base, k, e, 0, n, inverse, M)]]

\* ---------------------------------------------------------------- common.rs
\* verify_length that forgets the output buffer
VerifyLengthInputOnly(input_len, output_len, expected) ==
    input_len = expected

\* verify_length: TRUE iff neither assert_eq! fires
VerifyLength(input_len, output_len, expected) ==
    input_len = expected /\ output_len = expected

\* verify_length_divisible that forgets to compare the two lengths
VerifyLengthDivisibleInputOnly(input_len, output_len, expected) ==
    input_len % expected = 0

\* verify_length_divisible: TRUE iff neither assert_eq! fires
VerifyLengthDivisible(input_len, output_len, expected) ==
    input_len % expected = 0 /\ input_len = output_len

\* ------------------------------------------------------------------ slices
\* A slice is a buffer together with a view [base, len] of it: the elements
\* base .. base + len - 1.

\* the whole buffer as a slice
Whole(buf) == [base |-> 0, len |-> SliceLen(buf)]

\* number of chunks buf.chunks_mut(n) yields
NumChunks(buf, n) == (SliceLen(buf) + n - 1) \div n

\* chunks that all start at the front of the buffer
ChunkAlwaysFirst(buf, c, n) == [base |-> 0, len |-> Min(n, SliceLen(buf) - c * n)]

\* chunk c of buf.chunks_mut(n) (the last may be short)
Chunk(buf, c, n) == [base |-> c * n, len |-> Min(n, SliceLen(buf) - c * n)]

InView(i, v) == i >= v.base /\ i < v.base + v.len

\* -------------------------------------------------------------- inner FFTs
\* An inner FFT is a trait object; the model keeps its len() (at least 1)
\* and is_inverse().  Its process_multi computes the DFT of every chunk of
\* its input slice into its output slice.
InnerFfts == [len : 1 .. MaxSize, inverse : BOOLEAN]

NoFft == [len |-> 0, inverse |-> FALSE]

\* output buffer after Fft::process_multi(input[vi], output[vo]) on an inner
\* FFT
FftMultiOutput(fft, input, vi, output, vo, M) ==
    [i \in DOMAIN output |->
        IF InView(i, vo)
        THEN [e \in 0 .. M - 1 |->
                DftSum(input, vi.base + ((i - vo.base) \div fft.len) * fft.len,
                       (i - vo.base) % fft.len, e, 0, fft.len, fft.inverse, M)]
        ELSE output[i]]

\* input buffer after Fft::process_multi: the trait uses the input slice as
\* scratch, so the caller must consider it garbage; scrambled tells whether
\* this implementation overwrote it
FftMultiScratch(input, vi, scrambled, M) ==
    [i \in DOMAIN input |->
        IF scrambled /\ InView(i, vi) THEN CJunk(M) ELSE input[i]]

\* array_utils::transpose(width, height, input[vi], output[vo]): the
\* row-major height x width matrix in input becomes the width x height
\* matrix in output
Transpose(width, height, input, vi, output, vo) ==
    [i \in DOMAIN output |->
        IF InView(i, vo) /\ i - vo.base < width * height
        THEN input[vi.base + ((i - vo.base) \div height)
                           + ((i - vo.base) % height) * width]
        ELSE output[i]]

\* ------------------------------------------------------------- math_utils
RECURSIVE EeaLoop(_, _, _, _, _, _)
EeaLoop(r0, r1, s0, s1, t0, t1) ==
    IF r0 = 0 THEN <<r1, s1, t1>>
    ELSE LET quot == r1 \div r0
         IN  EeaLoop(r1 - quot * r0, r0, s1 - quot * s0, s0, t1 - quot * t0, t0)

\* math_utils::extended_euclidean_algorithm(a, b) = (gcd, x, y) with
\* a*x + b*y = gcd
ExtendedEuclideanAlgorithm(a, b) == EeaLoop(b, a, 0, 1, 1, 0)

\* ------------------------------------------------- GoodThomasAlgorithm::new
\* a constructor that does not compare the directions
DirectionAssertMissing(n1_fft, n2_fft) == TRUE

\* assert_eq!(n1_fft.is_inverse(), n2_fft.is_inverse(), ...)
DirectionAssert(n1_fft, n2_fft) == n1_fft.inverse = n2_fft.inverse

\* a constructor that only rejects a zero gcd
CoprimeAssertLoose(gcd) == gcd >= 1

\* assert!(gcd == 1, ...)
CoprimeAssert(gcd) == gcd = 1

\* a constructor without the sign adjustment
MakePositiveMissing(inverse, modulus) == inverse

\* if inverse < 0 { inverse += modulus }
MakePositive(inverse, modulus) ==
    IF inverse < 0 THEN inverse + modulus ELSE inverse

\* usize arithmetic in a word of W bits (wrapping, as in a release build)
WrapMul(a, b, W) == (a * b) % (2 ^ W)

WrapAdd(a, b, W) == (a + b) % (2 ^ W)

\* input_map[i] as a machine with words of W bits computes it
WrappingInputMapEntry(i, n1, n2, W) ==
    LET x == i % n1
        y == i \div n1
    IN  WrapAdd(WrapMul(x, n2, W), WrapMul(y, n1, W), W) % WrapMul(n1, n2, W)

\* output_map[i] as a machine with words of W bits computes it
WrappingOutputMapEntry(i, n1, n2, n1_inverse, n2_inverse, W) ==
    LET y == i % n2
        x == i \div n2
    IN  WrapAdd(WrapMul(WrapMul(x, n2, W), n2_inverse, W),
                WrapMul(WrapMul(y, n1, W), n1_inverse, W), W) % WrapMul(n1, n2, W)

\* the values computed on the way to input_map[i], before the reduction
InputMapIntermediates(i, n1, n2) ==
    {n1 * n2, (i % n1) * n2, (i \div n1) * n1,
     (i % n1) * n2 + (i \div n1) * n1}

\* the values computed on the way to output_map[i], before the reduction
OutputMapIntermediates(i, n1, n2, n1_inverse, n2_inverse) ==
    {n1 * n2,
     (i \div n2) * n2, (i \div n2) * n2 * n2_inverse,
     (i % n2) * n1, (i % n2) * n1 * n1_inverse,
     (i \div n2) * n2 * n2_inverse + (i % n2) * n1 * n1_inverse}

\* input_map with the row index left undivided
InputMapSumNoDiv(i, n1, n2) ==
    LET x == i % n1
        y == i
    IN  x * n2 + y * n1

\* the sum reduced modulo n1 * n2 to give input_map[i]
InputMapSum(i, n1, n2) ==
    LET x == i % n1
        y == i \div n1
    IN  x * n2 + y * n1

\* input_map with n1 written for n2 in the column term
InputMapEntryWidthTwice(i, n1, n2) ==
    ((i % n1) * n1 + (i \div n1) * n1) % (n1 * n2)

InputMapEntry(i, n1, n2) == InputMapSum(i, n1, n2) % (n1 * n2)

\* the sum reduced modulo n1 * n2 to give output_map[i]; the inverses are
\* cast "as usize", which leaves a non-negative value as it is
OutputMapSum(i, n1, n2, n1_inverse, n2_inverse) ==
    LET y == i % n2
        x == i \div n2
    IN  x * n2 * n2_inverse + y * n1 * n1_inverse

\* output_map with the two inverses exchanged
OutputMapEntrySwapped(i, n1, n2, n1_inverse, n2_inverse) ==
    OutputMapSum(i, n1, n2, n2_inverse, n1_inverse) % (n1 * n2)

OutputMapEntry(i, n1, n2, n1_inverse, n2_inverse) ==
    OutputMapSum(i, n1, n2, n1_inverse, n2_inverse) % (n1 * n2)

\* the struct before any construction
NoPlan ==
    [width |-> 0, width_size_fft |-> NoFft,
     height |-> 0, height_size_fft |-> NoFft,
     input_map |-> EmptyIdx, output_map |-> EmptyIdx,
     inverse |-> FALSE]

\* the inverses after the sign adjustment
Inverses(n1, n2) ==
    LET eea == ExtendedEuclideanAlgorithm(n1, n2)
    IN  [n1_inverse |-> MakePositive(eea[2], n2),
         n2_inverse |-> MakePositive(eea[3], n1)]

\* GoodThomasAlgorithm::new: panicked tells whether an assertion fired,
\* plan is the struct built otherwise
GoodThomasNew(n1_fft, n2_fft) ==
    LET n1  == n1_fft.len
        n2  == n2_fft.len
        gcd == ExtendedEuclideanAlgorithm(n1, n2)[1]
        inv == Inverses(n1, n2)
    IN  IF ~DirectionAssert(n1_fft, n2_fft) \/ ~CoprimeAssert(gcd)
        THEN [panicked |-> TRUE, plan |-> NoPlan]
        ELSE [panicked |-> FALSE,
              plan |->
                [width |-> n1, width_size_fft |-> n1_fft,
                 height |-> n2, height_size_fft |-> n2_fft,
                 input_map |->
                    [i \in 0 .. n1 * n2 - 1 |-> InputMapEntry(i, n1, n2)],
                 output_map |->
                    [i \in 0 .. n1 * n2 - 1 |->
                        OutputMapEntry(i, n1, n2, inv.n1_inverse, inv.n2_inverse)],
                 inverse |-> n1_fft.inverse]]

\* len() answering with the width
GoodThomasLenWidth(p) == p.width

\* Length for GoodThomasAlgorithm
GoodThomasLen(p) == SliceLen(p.input_map)

\* IsInverse for GoodThomasAlgorithm
GoodThomasIsInverse(p) == p.inverse

\* ------------------------------------------ GoodThomasAlgorithm::perform_fft
\* Each step takes the two buffers and the views perform_fft was given of
\* them (vi of input, vo of output) and yields the buffers as the step
\* leaves them; panicked tells that the step panicked (a failed assertion or
\* an index out of bounds) after the writes shown.

\* first i of the zip whose index is out of bounds for a slice of length
\* len, or limit
RECURSIVE FirstBad(_, _, _, _)
FirstBad(map, len, i, limit) ==
    IF i >= limit \/ map[i] >= len THEN i
    ELSE FirstBad(map, len, i + 1, limit)

\* for (output_element, &input_index) in output.iter_mut().zip(input_map.iter())
\*     { *output_element = input[input_index]; }
CopyStep(p, input, vi, output, vo) ==
    LET limit == Min(vo.len, SliceLen(p.input_map))
        bad   == FirstBad(p.input_map, vi.len, 0, limit)
    IN  [panicked |-> bad < limit,
         input    |-> input,
         output   |-> [i \in DOMAIN output |->
                        IF InView(i, vo) /\ i - vo.base < bad
                        THEN input[vi.base + p.input_map[i - vo.base]]
                        ELSE output[i]]]

\* fft.process_multi(src[vs], dst[vd]) on an inner FFT: dst receives the
\* transforms, src is left as scratch
InnerProcessMulti(fft, src, vs, dst, vd, scrambled, M) ==
    IF ~VerifyLengthDivisible(vs.len, vd.len, fft.len)
    THEN [panicked |-> TRUE, src |-> src, dst |-> dst]
    ELSE [panicked |-> FALSE,
          src |-> FftMultiScratch(src, vs, scrambled, M),
          dst |-> FftMultiOutput(fft, src, vs, dst, vd, M)]

\* the width FFTs called with the buffers exchanged
WidthStepSwapped(p, input, vi, output, vo, scrambled, M) ==
    LET r == InnerProcessMulti(p.width_size_fft, input, vi, output, vo, scrambled, M)
    IN  [panicked |-> r.panicked, input |-> r.src, output |-> r.dst]

\* self.width_size_fft.process_multi(output, input)
WidthStep(p, input, vi, output, vo, scrambled, M) ==
    LET r == InnerProcessMulti(p.width_size_fft, output, vo, input, vi, scrambled, M)
    IN  [panicked |-> r.panicked, input |-> r.dst, output |-> r.src]

\* array_utils::transpose(self.width, self.height, input, output)
TransposeStep(p, input, vi, output, vo) ==
    IF vi.len # p.width * p.height \/ vo.len # p.width * p.height
    THEN [panicked |-> TRUE, input |-> input, output |-> output]
    ELSE [panicked |-> FALSE, input |-> input,
          output |-> Transpose(p.width, p.height, input, vi, output, vo)]

\* self.height_size_fft.process_multi(output, input)
HeightStep(p, input, vi, output, vo, scrambled, M) ==
    LET r == InnerProcessMulti(p.height_size_fft, output, vo, input, vi, scrambled, M)
    IN  [panicked |-> r.panicked, input |-> r.dst, output |-> r.src]

\* the last i <= from with map[i] = k, or -1
RECURSIVE LastWriter(_, _, _)
LastWriter(map, k, from) ==
    IF from < 0 THEN 0 - 1
    ELSE IF map[from] = k THEN from ELSE LastWriter(map, k, from - 1)

\* for (input_element, &output_index) in input.iter().zip(output_map.iter())
\*     { output[output_index] = *input_element; }
ScatterStep(p, input, vi, output, vo) ==
    LET limit == Min(vi.len, SliceLen(p.output_map))
        bad   == FirstBad(p.output_map, vo.len, 0, limit)
    IN  [panicked |-> bad < limit,
         input    |-> input,
         output   |-> [k \in DOMAIN output |->
                        LET w == IF InView(k, vo)
                                 THEN LastWriter(p.output_map, k - vo.base, bad - 1)
                                 ELSE 0 - 1
                        IN  IF w < 0 THEN output[k] ELSE input[vi.base + w]]]

\* ------------------------------------------------------------------- state
VARIABLES
    planner,    \* the FftPlanner: whether it exists, and its direction
    req,        \* arguments of the construction that was run
    ctor,       \* "idle", "ok" (a GoodThomasAlgorithm exists), "panic", "other"
    plan,       \* the fields of the GoodThomasAlgorithm
    node,       \* len() and is_inverse() of a planned FFT of another kind
    thr         \* per calling thread: its buffers and its place in the call

vars == <<planner, req, ctor, plan, node, thr>>

NoBuf == [i \in 0 .. -1 |-> EmptyIdx]

IdleThread ==
    [pc |-> "idle", multi |-> FALSE, chunk |-> 0,
     input |-> NoBuf, output |-> NoBuf,
     input0 |-> NoBuf, output0 |-> NoBuf]

NoReq == [via |-> "none", n |-> 0, n1_fft |-> NoFft, n2_fft |-> NoFft]

Init ==
    /\ planner = [made |-> FALSE, inverse |-> FALSE]
    /\ req = NoReq
    /\ ctor = "idle"
    /\ plan = NoPlan
    /\ node = NoFft
    /\ thr = [t \in Threads |-> IdleThread]

\* ------------------------------------------------------------ construction
\* GoodThomasAlgorithm::new(n1_fft, n2_fft) called directly
New(n1_fft, n2_fft) ==
    /\ ctor = "idle"
    /\ ~planner.made
    /\ LET r == GoodThomasNew(n1_fft, n2_fft)
       IN  /\ ctor' = IF r.panicked THEN "panic" ELSE "ok"
           /\ plan' = r.plan
    /\ req' = [via |-> "direct", n |-> 0, n1_fft |-> n1_fft, n2_fft |-> n2_fft]
    /\ UNCHANGED <<planner, node, thr>>

\* FftPlanner::new(inverse)
PlannerNew(inverse) ==
    /\ ctor = "idle"
    /\ ~planner.made
    /\ planner' = [made |-> TRUE, inverse |-> inverse]
    /\ UNCHANGED <<req, ctor, plan, node, thr>>

ButterflySizes == {2, 3, 4, 5, 6, 7, 8, 16, 32}

IsPowerOfTwo(n) == \E k \in 0 .. n : 2 ^ k = n

Divides(d, n) == n % d = 0

Coprime(a, b) == \A d \in 2 .. Min(a, b) : ~(Divides(d, a) /\ Divides(d, b))

\* the splits n = w * h, w, h > 1, gcd(w, h) = 1 the planner may choose
CoprimeSplits(n) ==
    {s \in (2 .. n) \X (2 .. n) : s[1] * s[2] = n /\ Coprime(s[1], s[2])}

\* planner rule 4, coprime case
PlansGoodThomas(n) ==
    /\ n # 1
    /\ n \notin ButterflySizes
    /\ ~IsPowerOfTwo(n)
    /\ CoprimeSplits(n) # {}

\* FftPlanner::plan_fft(n), n handled by GoodThomas
PlanFftGoodThomas(n) ==
    /\ ctor = "idle"
    /\ planner.made
    /\ PlansGoodThomas(n)
    /\ \E s \in CoprimeSplits(n) :
        LET n1_fft == [len |-> s[1], inverse |-> planner.inverse]
            n2_fft == [len |-> s[2], inverse |-> planner.inverse]
            r      == GoodThomasNew(n1_fft, n2_fft)
        IN  /\ ctor' = IF r.panicked THEN "panic" ELSE "ok"
            /\ plan' = r.plan
            /\ req' = [via |-> "planner", n |-> n,
                       n1_fft |-> n1_fft, n2_fft |-> n2_fft]
    /\ UNCHANGED <<planner, node, thr>>

\* FftPlanner::plan_fft(n), n handled by another algorithm
PlanFftOther(n) ==
    /\ ctor = "idle"
    /\ planner.made
    /\ ~PlansGoodThomas(n)
    /\ ctor' = "other"
    /\ node' = [len |-> n, inverse |-> planner.inverse]
    /\ req' = [via |-> "planner", n |-> n, n1_fft |-> NoFft, n2_fft |-> NoFft]
    /\ UNCHANGED <<planner, plan, thr>>

\* len() of the FFT that was built
FftLen == IF ctor = "other" THEN node.len ELSE GoodThomasLen(plan)

\* is_inverse() of the FFT that was built
FftIsInverse == IF ctor = "other" THEN node.inverse ELSE GoodThomasIsInverse(plan)

\* ------------------------------------------------------------------- calls
\* buffer lengths a caller may pass to an FFT of length n
BufLens(n) == {0, n - 1, n + 1} \cup {k * n : k \in 1 .. MaxBlocks}

\* test signals of a given length over the roots of order M
Impulse(len, pos, M) ==
    [i \in 0 .. len - 1 |-> IF i = pos THEN CReal(1, M) ELSE CZero(M)]

Mixed(len, M) ==
    [i \in 0 .. len - 1 |-> CAdd(CReal(i + 1, M), CMulRoot(CReal(2, M), i % M, M))]

\* every impulse for one block; for longer buffers an impulse in the last
\* block; always a signal with all elements different and non-real
Signals(len, M) ==
    {Mixed(len, M)} \cup
        {Impulse(len, pos, M) : pos \in (IF len <= M THEN 0 ELSE len - 1) .. len - 1}

\* what the output buffer holds when the call starts: values the transform
\* did not write
FreshOutput(len, M) == [i \in 0 .. len - 1 |-> CJunk(M)]

\* the slices perform_fft works on: the whole buffers in process, the
\* current chunks in process_multi
ViewInput(t) ==
    IF thr[t].multi
    THEN Chunk(thr[t].input, thr[t].chunk, GoodThomasLen(plan))
    ELSE Whole(thr[t].input)

ViewOutput(t) ==
    IF thr[t].multi
    THEN Chunk(thr[t].output, thr[t].chunk, GoodThomasLen(plan))
    ELSE Whole(thr[t].output)

\* input.chunks_mut(len).zip(output.chunks_mut(len)) yields this many pairs
ZippedChunks(t) ==
    Min(NumChunks(thr[t].input, GoodThomasLen(plan)),
        NumChunks(thr[t].output, GoodThomasLen(plan)))

\* a thread calls fft.process (multi = FALSE) or fft.process_multi
Call(t, multi, input, output) ==
    /\ ctor = "ok"
    /\ thr[t].pc = "idle"
    /\ thr' = [thr EXCEPT ![t] =
                [pc |-> "verify", multi |-> multi, chunk |-> 0,
                 input |-> input, output |-> output,
                 input0 |-> input, output0 |-> output]]
    /\ UNCHANGED <<planner, req, ctor, plan, node>>

\* verify_length / verify_length_divisible at call entry
LengthCheck(t) ==
    IF thr[t].multi
    THEN VerifyLengthDivisible(SliceLen(thr[t].input), SliceLen(thr[t].output),
                               GoodThomasLen(plan))
    ELSE VerifyLength(SliceLen(thr[t].input), SliceLen(thr[t].output),
                      GoodThomasLen(plan))

Verify(t) ==
    /\ thr[t].pc = "verify"
    /\ thr' = [thr EXCEPT ![t].pc =
                IF ~LengthCheck(t) THEN "panic"
                ELSE IF thr[t].multi /\ ZippedChunks(t) = 0 THEN "done"
                ELSE "copy"]
    /\ UNCHANGED <<planner, req, ctor, plan, node>>

\* a step whose output lands in one buffer shared by every thread
AfterStepSharedOutput(t, r, next) ==
    [u \in Threads |->
        IF u = t
        THEN [thr[t] EXCEPT
                !.pc = IF r.panicked THEN "panic" ELSE next,
                !.input = r.input,
                !.output = r.output]
        ELSE [thr[u] EXCEPT !.output = r.output]]

\* the threads after thread t took a step of perform_fft with result r: only
\* the buffers the caller passed are written
AfterStep(t, r, next) ==
    [thr EXCEPT ![t] =
        [thr[t] EXCEPT
            !.pc = IF r.panicked THEN "panic" ELSE next,
            !.input = r.input,
            !.output = r.output]]

Copy(t) ==
    /\ thr[t].pc = "copy"
    /\ thr' = AfterStep(t, CopyStep(plan, thr[t].input, ViewInput(t),
                                    thr[t].output, ViewOutput(t)), "width")
    /\ UNCHANGED <<planner, req, ctor, plan, node>>

WidthFft(t) ==
    /\ thr[t].pc = "width"
    /\ \E scrambled \in BOOLEAN :
        thr' = AfterStep(t, WidthStep(plan, thr[t].input, ViewInput(t),
                                      thr[t].output, ViewOutput(t),
                                      scrambled, GoodThomasLen(plan)),
                         "transpose")
    /\ UNCHANGED <<planner, req, ctor, plan, node>>

DoTranspose(t) ==
    /\ thr[t].pc = "transpose"
    /\ thr' = AfterStep(t, TransposeStep(plan, thr[t].input, ViewInput(t),
                                         thr[t].output, ViewOutput(t)), "height")
    /\ UNCHANGED <<planner, req, ctor, plan, node>>

HeightFft(t) ==
    /\ thr[t].pc = "height"
    /\ \E scrambled \in BOOLEAN :
        thr' = AfterStep(t, HeightStep(plan, thr[t].input, ViewInput(t),
                                       thr[t].output, ViewOutput(t),
                                       scrambled, GoodThomasLen(plan)),
                         "scatter")
    /\ UNCHANGED <<planner, req, ctor, plan, node>>

\* the last step of perform_fft; process then returns, process_multi goes on
\* to the next pair of chunks
Scatter(t) ==
    /\ thr[t].pc = "scatter"
    /\ LET r    == ScatterStep(plan, thr[t].input, ViewInput(t),
                               thr[t].output, ViewOutput(t))
           more == thr[t].multi /\ thr[t].chunk + 1 < ZippedChunks(t)
           a    == AfterStep(t, r, IF more THEN "copy" ELSE "done")
       IN  thr' = [a EXCEPT ![t].chunk = IF more /\ ~r.panicked THEN @ + 1 ELSE @]
    /\ UNCHANGED <<planner, req, ctor, plan, node>>

\* the call returned; the caller drops its buffers
Return(t) ==
    /\ thr[t].pc = "done"
    /\ thr' = [thr EXCEPT ![t] = IdleThread]
    /\ UNCHANGED <<planner, req, ctor, plan, node>>

PerformFft(t) ==
    Copy(t) \/ WidthFft(t) \/ DoTranspose(t) \/ HeightFft(t) \/ Scatter(t)

Construct ==
    \/ \E n1_fft, n2_fft \in InnerFfts : New(n1_fft, n2_fft)
    \/ \E inverse \in BOOLEAN : PlannerNew(inverse)
    \/ \E n \in 1 .. MaxPlanLen : PlanFftGoodThomas(n)
    \/ \E n \in 1 .. MaxPlanLen : PlanFftOther(n)

\* one caller; every buffer length and both entry points
AnyCall(t) ==
    /\ ctor = "ok"
    /\ thr[t].pc = "idle"
    /\ \E multi \in BOOLEAN, li, lo \in BufLens(GoodThomasLen(plan)) :
        \E input \in Signals(li, GoodThomasLen(plan)) :
            Call(t, multi, input, FreshOutput(lo, GoodThomasLen(plan)))

Next ==
    \/ Construct
    \/ AnyCall(1)
    \/ Verify(1)
    \/ PerformFft(1)
    \/ Return(1)

Spec == Init /\ [][Next]_vars

\* several threads share the plan; each calls process on its own buffers
\* (examples/concurrency.rs)
ProcessCall(t) ==
    /\ ctor = "ok"
    /\ thr[t].pc = "idle"
    /\ \E input \in {Impulse(GoodThomasLen(plan), (t - 1) % GoodThomasLen(plan),
                             GoodThomasLen(plan)),
                     Mixed(GoodThomasLen(plan), GoodThomasLen(plan))} :
        Call(t, FALSE, input, FreshOutput(GoodThomasLen(plan), GoodThomasLen(plan)))

NextConc ==
    \/ Construct
    \/ \E t \in Threads : ProcessCall(t)
    \/ \E t \in Threads : Verify(t)
    \/ \E t \in Threads : PerformFft(t)
    \/ \E t \in Threads : Return(t)

SpecConc == Init /\ [][NextConc]_vars

\* ------------------------------------------------------------------ claims
\* the call of thread t is past its length check
Running(t) == thr[t].pc \in {"copy", "width", "transpose", "height", "scatter", "done"}

\* the naive DFT, in the plan's direction, of block b of the input thread t
\* passed
ExpectedBlock(t, b) ==
    Dft(thr[t].input0, b * GoodThomasLen(plan), GoodThomasLen(plan),
        GoodThomasIsInverse(plan), GoodThomasLen(plan))

\* block b of a buffer of thread t, re-based at 0
BlockOf(buf, b) ==
    [i \in 0 .. GoodThomasLen(plan) - 1 |-> buf[b * GoodThomasLen(plan) + i]]

\* C1: a GoodThomasAlgorithm over exact inner DFTs of coprime lengths and
\* one direction computes the naive DFT of its length: when process
\* returns, output[k] = sum_j x[j] * W^(j*k mod n) for every k.
C1_ProcessIsDft ==
    \A t \in Threads :
        (thr[t].pc = "done" /\ ~thr[t].multi) => thr[t].output = ExpectedBlock(t, 0)

C1_Witness ==
    /\ thr[1].pc = "done" /\ ~thr[1].multi
    /\ plan.width = 2 /\ plan.height = 3 /\ plan.inverse
    /\ thr[1].input0 = Mixed(6, 6)

\* C3: process panics exactly when a buffer length differs from len(), and
\* it does so at entry: at the panic both buffers are as the caller passed
\* them; a call with both lengths right gets past the check.
C3_ProcessLengthPanic ==
    \A t \in Threads :
        ~thr[t].multi =>
            /\ Running(t) =>
                /\ SliceLen(thr[t].input) = GoodThomasLen(plan)
                /\ SliceLen(thr[t].output) = GoodThomasLen(plan)
            /\ thr[t].pc = "panic" =>
                /\ \/ SliceLen(thr[t].input0) # GoodThomasLen(plan)
                   \/ SliceLen(thr[t].output0) # GoodThomasLen(plan)
                /\ thr[t].input = thr[t].input0
                /\ thr[t].output = thr[t].output0

C3_Witness ==
    /\ thr[1].pc = "panic" /\ ~thr[1].multi
    /\ SliceLen(thr[1].input0) = GoodThomasLen(plan)
    /\ SliceLen(thr[1].output0) = GoodThomasLen(plan) + 1

\* C4 as claimed: process_multi gets past its length check only with two
\* buffers of one length k * len(), k >= 1.
C4_EmptyRejected ==
    \A t \in Threads :
        (thr[t].multi /\ Running(t)) =>
            /\ SliceLen(thr[t].input) = SliceLen(thr[t].output)
            /\ \E k \in 1 .. MaxBlocks + 1 :
                SliceLen(thr[t].input) = k * GoodThomasLen(plan)

\* C4 amended: process_multi panics, with nothing written, unless the two
\* buffers have one length k * len(), k >= 0; with two empty buffers (k = 0)
\* it returns normally and has written nothing.
C4_MultiLengthPanic ==
    \A t \in Threads :
        thr[t].multi =>
            /\ Running(t) =>
                /\ SliceLen(thr[t].input) = SliceLen(thr[t].output)
                /\ \E k \in 0 .. MaxBlocks + 1 :
                    SliceLen(thr[t].input) = k * GoodThomasLen(plan)
            /\ thr[t].pc = "panic" =>
                /\ \/ SliceLen(thr[t].input0) # SliceLen(thr[t].output0)
                   \/ SliceLen(thr[t].input0) % GoodThomasLen(plan) # 0
                /\ thr[t].input = thr[t].input0
                /\ thr[t].output = thr[t].output0
            /\ (thr[t].pc # "idle" /\ SliceLen(thr[t].input0) = 0
                    /\ SliceLen(thr[t].output0) = 0) =>
                thr[t].pc \in {"verify", "done"}

C4_Witness ==
    /\ thr[1].pc = "done" /\ thr[1].multi
    /\ SliceLen(thr[1].input0) = 0 /\ SliceLen(thr[1].output0) = 0
    /\ GoodThomasLen(plan) = 6

\* C5: process_multi transforms block by block: every block already done
\* holds in output the naive DFT of the same block of the input (what
\* process gives for that block alone, C1), and every block not yet begun
\* is untouched in both buffers, so no block's result depends on another
\* block or on the order of the blocks.
C5_MultiIsBlockwise ==
    \A t \in Threads :
        (thr[t].multi /\ Running(t)) =>
            \A b \in 0 .. ZippedChunks(t) - 1 :
                /\ (b < thr[t].chunk \/ thr[t].pc = "done") =>
                    BlockOf(thr[t].output, b) = ExpectedBlock(t, b)
                /\ (b > thr[t].chunk \/ (b = thr[t].chunk /\ thr[t].pc = "copy")) =>
                    /\ BlockOf(thr[t].input, b) = BlockOf(thr[t].input0, b)
                    /\ BlockOf(thr[t].output, b) = BlockOf(thr[t].output0, b)

C5_Witness ==
    /\ thr[1].pc = "done" /\ thr[1].multi
    /\ plan.width = 3 /\ plan.height = 2
    /\ thr[1].input0 = Impulse(12, 11, 6)

\* C6: GoodThomasAlgorithm::new panics whenever the inner lengths share a
\* factor, and succeeds for coprime inner lengths of one direction; no
\* instance has inner sizes with a common factor.
C6_CoprimeOrPanic ==
    /\ ctor = "ok" => Coprime(plan.width, plan.height)
    /\ (req.via # "none" /\ ctor # "other") =>
        /\ ~Coprime(req.n1_fft.len, req.n2_fft.len) => ctor = "panic"
        /\ (Coprime(req.n1_fft.len, req.n2_fft.len)
                /\ req.n1_fft.inverse = req.n2_fft.inverse) => ctor = "ok"

C6_Witness ==
    /\ ctor = "panic"
    /\ req.n1_fft = [len |-> 2, inverse |-> TRUE]
    /\ req.n2_fft = [len |-> 4, inverse |-> TRUE]

\* C7: GoodThomasAlgorithm::new panics when the inner FFTs differ in
\* direction; an instance reports the direction of both inner FFTs; a
\* planned FFT reports the planner's direction.
C7_DirectionAgrees ==
    /\ (req.via # "none" /\ req.n1_fft.inverse # req.n2_fft.inverse) => ctor = "panic"
    /\ ctor = "ok" =>
        /\ GoodThomasIsInverse(plan) = plan.width_size_fft.inverse
        /\ GoodThomasIsInverse(plan) = plan.height_size_fft.inverse
        /\ plan.width_size_fft = req.n1_fft
        /\ plan.height_size_fft = req.n2_fft
    /\ (req.via = "planner" /\ ctor \in {"ok", "other"}) =>
        FftIsInverse = planner.inverse

C7_Witness ==
    /\ ctor = "panic"
    /\ req.n1_fft = [len |-> 2, inverse |-> TRUE]
    /\ req.n2_fft = [len |-> 3, inverse |-> FALSE]

\* C8: len() is the constructed size, before, during and after every call:
\* a GoodThomasAlgorithm over inner lengths w and h reports w * h, the
\* length of both maps, and an FFT planned for n reports n.
C8_LenIsConstructedSize ==
    /\ ctor = "ok" =>
        /\ GoodThomasLen(plan) = req.n1_fft.len * req.n2_fft.len
        /\ GoodThomasLen(plan) = plan.width * plan.height
        /\ GoodThomasLen(plan) = SliceLen(plan.output_map)
    /\ (req.via = "planner" /\ ctor \in {"ok", "other"}) => FftLen = req.n

C8_Witness ==
    /\ ctor = "ok" /\ req.via = "planner" /\ req.n = 10
    /\ thr[1].pc = "done" /\ thr[1].multi /\ SliceLen(thr[1].input0) = 20

\* the parts of C9: the plan stays as constructed; no call panics and each
\* returns the naive DFT of its own input; a step of one thread leaves every
\* other thread's buffers alone
C9_PlanAsBuilt ==
    ctor = "ok" => plan = GoodThomasNew(req.n1_fft, req.n2_fft).plan

C9_OwnResult ==
    \A t \in Threads :
        /\ thr[t].pc # "panic"
        /\ thr[t].pc = "done" => thr[t].output = ExpectedBlock(t, 0)

C9_OwnBuffersOnly ==
    \A t \in Threads : thr[t].pc' = thr[t].pc => thr[t]' = thr[t]

\* C9: under every interleaving of threads that share the plan, the plan is
\* never changed, each thread writes only its own buffers, and each call
\* returns what it returns when run alone.
C9_SharedPlanIsSafe ==
    /\ [](C9_PlanAsBuilt /\ C9_OwnResult)
    /\ [][C9_OwnBuffersOnly /\ (ctor = "ok" => plan' = plan)]_vars

C9_Witness ==
    /\ plan.width = 2 /\ plan.height = 3
    /\ thr[1].pc = "done" /\ thr[2].pc = "transpose"
    /\ thr[1].input0 # thr[2].input0

IsPermutation(map, n) ==
    /\ DOMAIN map = 0 .. n - 1
    /\ \A i \in 0 .. n - 1 : map[i] \in 0 .. n - 1
    /\ \A i, j \in 0 .. n - 1 : map[i] = map[j] => i = j

\* C10: input_map, with input_map[i] = ((i mod w)*h + (i div w)*w) mod n,
\* and output_map are permutations of 0..n-1; so after the copy the output
\* holds every input element exactly once and after the scatter no element
\* of the output is left as it was before the call.
C10_MapsArePermutations ==
    ctor = "ok" =>
        /\ IsPermutation(plan.input_map, plan.width * plan.height)
        /\ IsPermutation(plan.output_map, plan.width * plan.height)
        /\ \A i \in 0 .. plan.width * plan.height - 1 :
            plan.input_map[i] =
                ((i % plan.width) * plan.height + (i \div plan.width) * plan.width)
                    % (plan.width * plan.height)
        /\ \A t \in Threads :
            /\ (thr[t].pc = "width" /\ ~thr[t].multi) =>
                \A j \in DOMAIN thr[t].input0 :
                    Cardinality({i \in DOMAIN thr[t].output :
                                    plan.input_map[i] = j
                                    /\ thr[t].output[i] = thr[t].input0[j]}) = 1
            /\ (thr[t].pc = "done" /\ ~thr[t].multi) =>
                \A k \in DOMAIN thr[t].output :
                    thr[t].output[k] # CJunk(GoodThomasLen(plan))

C10_Witness ==
    /\ thr[1].pc = "done" /\ ~thr[1].multi
    /\ plan.width = 3 /\ plan.height = 4 /\ ~plan.inverse
    /\ thr[1].input0 = Impulse(12, 5, 12)

\* C11: after the sign adjustment n1_inverse is a non-negative inverse of w
\* modulo h and n2_inverse a non-negative inverse of h modulo w, and
\* output_map[x*h + y] is the one index k in 0..w*h-1 with k mod w = x and
\* k mod h = y.
C11_OutputMapIsCrt ==
    ctor = "ok" =>
        LET w   == plan.width
            h   == plan.height
            inv == Inverses(w, h)
        IN  /\ inv.n1_inverse >= 0
            /\ inv.n2_inverse >= 0
            /\ (w * inv.n1_inverse) % h = 1 % h
            /\ (h * inv.n2_inverse) % w = 1 % w
            /\ \A x \in 0 .. w - 1 : \A y \in 0 .. h - 1 :
                /\ plan.output_map[x * h + y] =
                    (x * h * inv.n2_inverse + y * w * inv.n1_inverse) % (w * h)
                /\ \A k \in 0 .. w * h - 1 :
                    (k % w = x /\ k % h = y) <=> k = plan.output_map[x * h + y]

\* the Bezout coefficient of the width is negative before the adjustment
C11_Witness ==
    /\ ctor = "ok" /\ plan.width = 3 /\ plan.height = 4
    /\ ExtendedEuclideanAlgorithm(3, 4)[2] < 0
    /\ plan.output_map[2 * 4 + 3] = 11

\* the order of the steps of a call
StepOrder ==
    {<<"idle", "verify">>, <<"verify", "panic">>, <<"verify", "done">>,
     <<"verify", "copy">>, <<"copy", "width">>, <<"width", "transpose">>,
     <<"transpose", "height">>, <<"height", "scatter">>,
     <<"scatter", "copy">>, <<"scatter", "done">>, <<"done", "idle">>}

\* rows of length len of the slice dst[vd] are the DFTs of the same rows of
\* the slice src[vs]
RowsAreDfts(dst, vd, src, vs, len, inverse) ==
    \A i \in 0 .. vd.len - 1 :
        dst[vd.base + i] =
            Dft(src, vs.base + (i \div len) * len, len, inverse,
                GoodThomasLen(plan))[i % len]

\* a call that passed its own length check never panics later, and both
\* inner process_multi calls get two slices of length w*h, a positive
\* multiple of the inner len()
C12_InnerLengthsFit ==
    \A t \in Threads :
        /\ thr[t].pc = "panic" =>
            IF thr[t].multi
            THEN \/ SliceLen(thr[t].input0) # SliceLen(thr[t].output0)
                 \/ SliceLen(thr[t].input0) % (plan.width * plan.height) # 0
            ELSE \/ SliceLen(thr[t].input0) # plan.width * plan.height
                 \/ SliceLen(thr[t].output0) # plan.width * plan.height
        /\ thr[t].pc \in {"width", "height"} =>
            LET len == IF thr[t].pc = "width" THEN plan.width_size_fft.len
                       ELSE plan.height_size_fft.len
            IN  /\ ViewInput(t).len = plan.width * plan.height
                /\ ViewOutput(t).len = plan.width * plan.height
                /\ len >= 1
                /\ \E k \in 1 .. plan.width * plan.height :
                    plan.width * plan.height = k * len

\* the steps come in the order copy, width FFTs, transpose, height FFTs,
\* scatter; copy, transpose and scatter write output only, and the inner
\* FFTs read output and write input
C12_StepsInOrder ==
    \A t \in Threads :
        thr[t].pc' # thr[t].pc =>
            /\ <<thr[t].pc, thr[t].pc'>> \in StepOrder
            /\ thr[t].pc \in {"copy", "transpose", "scatter"} =>
                thr[t].input' = thr[t].input
            /\ thr[t].pc = "width" =>
                RowsAreDfts(thr[t].input', ViewInput(t), thr[t].output, ViewOutput(t),
                            plan.width, plan.inverse)
            /\ thr[t].pc = "height" =>
                RowsAreDfts(thr[t].input', ViewInput(t), thr[t].output, ViewOutput(t),
                            plan.height, plan.inverse)

\* C12: in every process or process_multi call that passes its entry length
\* check each block goes through copy (input to output), width-size
\* process_multi (output to input), transpose (input to output),
\* height-size process_multi (output to input) and scatter (input to
\* output), in this order, and the inner length assertions cannot fail.
C12_PerformFftSteps ==
    /\ []C12_InnerLengthsFit
    /\ [][C12_StepsInOrder]_vars

C12_Witness ==
    /\ thr[1].pc = "scatter" /\ thr[1].multi /\ thr[1].chunk = 1
    /\ plan.width = 4 /\ plan.height = 3

\* C13: while the maps are built every value computed before the final
\* reduction mod n is bounded: the input_map sum is below 2*n and the
\* output_map sum below n*(w + h); so in a word of W bits with
\* n*(w + h) < 2^W nothing overflows and the maps come out the same.
C13_MapArithmeticBounded ==
    ctor = "ok" =>
        LET w   == plan.width
            h   == plan.height
            n   == w * h
            inv == Inverses(w, h)
        IN  \A i \in 0 .. n - 1 :
                /\ InputMapSum(i, w, h) < 2 * n
                /\ OutputMapSum(i, w, h, inv.n1_inverse, inv.n2_inverse) < n * (w + h)
                /\ \A v \in InputMapIntermediates(i, w, h) :
                    v >= 0 /\ (v > n => v <= InputMapSum(i, w, h))
                /\ \A v \in OutputMapIntermediates(i, w, h, inv.n1_inverse, inv.n2_inverse) :
                    /\ v >= 0
                    /\ v > n => v <= OutputMapSum(i, w, h, inv.n1_inverse, inv.n2_inverse)
                /\ \A W \in 1 .. MaxWordBits :
                    n * (w + h) < 2 ^ W =>
                        /\ \A v \in InputMapIntermediates(i, w, h)
                                \cup OutputMapIntermediates(i, w, h, inv.n1_inverse,
                                                            inv.n2_inverse) :
                            v < 2 ^ W
                        /\ WrappingInputMapEntry(i, w, h, W) = plan.input_map[i]
                        /\ WrappingOutputMapEntry(i, w, h, inv.n1_inverse,
                                                  inv.n2_inverse, W)
                            = plan.output_map[i]

\* a plan whose output_map sum passes n, fits a word of 7 bits, and would
\* not fit one of 5 bits
C13_Witness ==
    /\ ctor = "ok" /\ plan.width = 4 /\ plan.height = 3
    /\ 12 * (4 + 3) < 2 ^ 7
    /\ \E i \in 0 .. 11 :
        /\ OutputMapSum(i, 4, 3, Inverses(4, 3).n1_inverse, Inverses(4, 3).n2_inverse)
            >= 2 ^ 5
        /\ WrappingOutputMapEntry(i, 4, 3, Inverses(4, 3).n1_inverse,
                                  Inverses(4, 3).n2_inverse, 5) # plan.output_map[i]

====
